---- MODULE Spec2Model ----
(***************************************************************************)
(* GitGuard: backup of an organisation's GitHub repositories to S3.        *)
(*                                                                         *)
(* The repository holds the pipeline twice: lambda_function.py (the        *)
(* scheduled entry point, lambda_handler) and github_backup.py (the        *)
(* direct entry point, run as a script).  The variable "entry" says which  *)
(* of the two a behaviour executes; every action below is the translation  *)
(* of the function of the same name, with the places where the two files   *)
(* differ written as IF entry = "lambda".                                  *)
(*                                                                         *)
(* The environment (GitHub, git, tar, S3, the file system) answers each    *)
(* call nondeterministically; every answer other than the plain success    *)
(* counts as a failure, and a behaviour holds at most MaxFaults of them.   *)
(* The remote repositories change by pushes between two invocations.       *)
(* stageLog, mdLog and uploads are what the logger and upload_to_s3 are    *)
(* given for the repository being processed; they start empty with each    *)
(* repository.                                                             *)
(*                                                                         *)
(* Names of files and repositories are sequences of tokens, so that the    *)
(* Python substring test `repo_name in metadata_file` is computed and not  *)
(* assumed: the repository "ab" is <<"a","b">> and its releases file is    *)
(* <<"a","b","_","releases",".json">>.                                     *)
(***************************************************************************)
EXTENDS Integers, Sequences, FiniteSets, TLC

VARIABLES
    entry,        \* "lambda" (lambda_function.py) or "script" (github_backup.py)
    run,          \* number of the current invocation over the same BACKUP_DIR
    pc,           \* position of the run
    faults,       \* number of environment failures (and pushes) so far
    secret,       \* what get_secret returned in this run
    org,          \* the repositories of the organisation, as the API lists them
    listStatus,   \* outcome of the listing request of this run
    repos,        \* the listing of this run (sequence of repository names)
    idx,          \* index in repos of the repository being processed
    fs,           \* BACKUP_DIR: the staging area
    bucket,       \* TRUE iff the S3 bucket exists
    stageLog,     \* stages of the current repository, in the order they ran
    mdLog,        \* one record per metadata request of the current repository
    uploads,      \* one record per upload_to_s3 call of the current repository
    preUpload,    \* the repository's staging entries when its upload stage began
    pipelines,    \* one record per repository pipeline ended in this run
    gitOp,        \* the last git operation issued by backup_git_repo; "cloned"
                  \* says whether the repository was in mirrorCloned then
    clonedRun,    \* per repository, the run of its first successful clone (0: none)
    mirrorCloned, \* repositories cloned successfully and not removed by cleanup since
    remote,       \* per repository, the refs the remote repository holds
    syncLog,      \* per repository, its last two git syncs that ran git
    result        \* what the run returned

vars ==
    <<entry, org, run, pc, faults, secret, listStatus, repos, idx, fs, bucket,
      stageLog, mdLog, uploads, preUpload, pipelines, gitOp, clonedRun,
      mirrorCloned, remote, syncLog, result>>

----------------------------------------------------------------------------
(* Bounds of the model *)

\* invocations of the entry point over the same BACKUP_DIR
MaxRuns == 2

\* repositories in the listing of the organisation
MaxRepos == 2

\* environment failures in one behaviour: a non-zero exit, a status other
\* than 200, an exception of a library call, a credential that is missing;
\* a push to a remote repository between two invocations counts as one
MaxFaults == 1

----------------------------------------------------------------------------
(* Names *)

RepoNames == { <<"a">>, <<"a", "b">> }

\* what the refs of a remote repository can be: as first seen, and after a push
Versions == {"v1", "v2"}

\* The listings the organisation endpoint can answer: repositories are distinct.
Distinct(s) == \A i, j \in 1..Len(s) : i # j => s[i] # s[j]

Listings ==
    { s \in UNION { [1..n -> RepoNames] : n \in 0..MaxRepos } : Distinct(s) }

\* metadata_items: (endpoint, backup_file)
metadata_items ==
    << <<"releases", "releases">>,
       <<"issues", "issues">>,
       <<"pulls", "pull_requests">>,
       <<"collaborators", "collaborators">>,
       <<"labels", "labels">>,
       <<"milestones", "milestones">>,
       <<"comments", "commit_comments">>,
       <<"forks", "forks">>,
       <<"projects", "projects">>,
       <<"actions/workflows", "actions_workflows">>,
       <<"actions/secrets", "actions_secrets">>,
       <<"hooks", "webhooks">> >>

NItems == Len(metadata_items)

Labels == { metadata_items[k][2] : k \in 1..NItems }

\* f'{repo_name}_{backup_file}.json'
backup_file_path(repo_name, backup_file) ==
    repo_name \o <<"_", backup_file, ".json">>

\* Python: sub in s
Contains(sub, s) ==
    \E i \in 0..(Len(s) - Len(sub)) : SubSeq(s, i + 1, i + Len(sub)) = sub

\* Python: s.endswith('.json')
EndsWithJson(s) == Len(s) > 0 /\ s[Len(s)] = ".json"

\* os.listdir(BACKUP_DIR): the metadata files and the git and wiki directories
listdir ==
    DOMAIN fs.meta
      \cup (IF fs.gitDir # {} THEN { <<"git">> } ELSE {})
      \cup (IF fs.wikiDir # {} THEN { <<"wiki">> } ELSE {})

\* the filter of the metadata upload loop and of the metadata cleanup loop
is_metadata_of(repo_name, metadata_file) ==
    IF entry = "lambda"
    THEN Contains(repo_name, metadata_file) /\ EndsWithJson(metadata_file)
    ELSE Contains(repo_name, metadata_file)

\* keys of the objects in the bucket (the date of the key is the day of the run)
git_key(repo_name) == <<repo_name, "git_backup.tar.gz">>
wiki_key(repo_name) == <<repo_name, "wiki_backup.tar.gz">>
metadata_key(repo_name, metadata_file) == <<repo_name, "metadata", metadata_file>>

----------------------------------------------------------------------------
(* State of the staging area *)

EmptyFs ==
    [ gitDir |-> {},      \* repositories R with BACKUP_DIR/git/R
      gitMirror |-> {},   \* repositories R with BACKUP_DIR/git/R/R
      wikiDir |-> {},     \* repositories R with BACKUP_DIR/wiki/R
      wikiMirror |-> {},  \* repositories R with BACKUP_DIR/wiki/R/R
      gitRefs |-> [r \in RepoNames |-> "none"],
                          \* the refs BACKUP_DIR/git/R/R holds, "none" without mirror
      tars |-> {},        \* <<kind, R, complete>>: BACKUP_DIR/<kind>/R.tar.gz
      meta |-> << >> ]    \* file name -> [run, complete, repo, label]

NoGitOp ==
    [repo |-> << >>, op |-> "none", run |-> 0, existed |-> FALSE,
     cloned |-> FALSE, exit |-> 0]

\* the staging entries of one repository
StagingOf(r) ==
    [ gitDir |-> r \in fs.gitDir,
      gitMirror |-> r \in fs.gitMirror,
      wikiDir |-> r \in fs.wikiDir,
      wikiMirror |-> r \in fs.wikiMirror,
      tars |-> { t \in fs.tars : t[2] = r },
      meta |-> { <<f, fs.meta[f].run, fs.meta[f].complete>> :
                   f \in { g \in DOMAIN fs.meta : fs.meta[g].repo = r } } ]

NoStaging ==
    [ gitDir |-> FALSE, gitMirror |-> FALSE, wikiDir |-> FALSE,
      wikiMirror |-> FALSE, tars |-> {}, meta |-> {} ]

Init ==
    /\ entry \in {"lambda", "script"}
    /\ org \in Listings
    /\ run = 1
    /\ pc = "secret"
    /\ faults = 0
    /\ secret = "unread"
    /\ listStatus = "none"
    /\ repos = << >>
    /\ idx = 0
    /\ fs = EmptyFs
    /\ bucket = FALSE
    /\ stageLog = << >>
    /\ mdLog = << >>
    /\ uploads = {}
    /\ preUpload = NoStaging
    /\ pipelines = << >>
    /\ gitOp = NoGitOp
    /\ clonedRun = [r \in RepoNames |-> 0]
    /\ mirrorCloned = {}
    /\ remote = [r \in RepoNames |-> "v1"]
    /\ syncLog = [r \in RepoNames |-> << >>]
    /\ result = "none"

\* the repository being processed
repo_name == repos[idx]

\* an environment failure may be injected while the budget lasts
MayFail == faults < MaxFaults

Cost(nominal) == IF nominal THEN 0 ELSE 1


\* one line of the log of the current repository
Entry(stage, outcome) == [stage |-> stage, outcome |-> outcome]

\* all subsets of S with at most n elements
RECURSIVE SubsetsUpTo(_, _)
SubsetsUpTo(S, n) ==
    IF n <= 0 THEN { {} }
    ELSE LET P == SubsetsUpTo(S, n - 1)
         IN  P \cup { p \cup {x} : p \in P, x \in S }

\* the logs of a repository pipeline that is about to start
FreshLogs ==
    /\ stageLog' = << >>
    /\ mdLog' = << >>
    /\ uploads' = {}
    /\ preUpload' = NoStaging

\* what the run returns when backup_all_repos returns normally
ReturnOk == IF entry = "lambda" THEN "statusCode200" ELSE "exit0"

\* what the run returns when an exception leaves backup_all_repos or
\* create_backup_folder: the handler's outer except, or the script's traceback
ReturnError == IF entry = "lambda" THEN "statusCode500" ELSE "exit1"

----------------------------------------------------------------------------
(* Start of a run *)

\* get_secret and the check of its result
get_secret ==
    /\ pc = "secret"
    /\ \E s \in {"complete", "partial", "none"} :
         /\ s = "complete" \/ MayFail
         /\ faults' = faults + Cost(s = "complete")
         /\ secret' = s
         /\ IF s = "none"
            THEN /\ pc' = "end"
                 /\ result' = IF entry = "lambda" THEN "unhandled" ELSE "exit1"
            ELSE /\ pc' = "mkdir"
                 /\ result' = result
    /\ UNCHANGED <<entry, org, remote, syncLog, run, listStatus, repos, idx,
                   fs, bucket, stageLog, mdLog, uploads, preUpload,
                   pipelines, gitOp, clonedRun, mirrorCloned>>

\* os.makedirs(BACKUP_DIR) and create_backup_folder
create_backup_folder ==
    /\ pc = "mkdir"
    /\ \E ok \in BOOLEAN :
         /\ ok \/ MayFail
         /\ faults' = faults + Cost(ok)
         /\ IF ok
            THEN pc' = "list" /\ result' = result
            ELSE pc' = "end" /\ result' = ReturnError
    /\ UNCHANGED <<entry, org, remote, syncLog, run, secret, listStatus,
                   repos, idx, fs, bucket, stageLog, mdLog, uploads,
                   preUpload, pipelines, gitOp, clonedRun, mirrorCloned>>

ListResponses == {"200", "403", "404", "500", "exception"}

\* what the run returns when the listing request did not answer 200
listing_failed_result(resp) ==
    IF resp = "exception" /\ entry = "script" THEN "exit1" ELSE ReturnOk

\* backup_all_repos: the listing request and the entry into the loop
list_repos ==
    /\ pc = "list"
    /\ \E resp \in ListResponses :
       LET l == IF resp = "200" THEN org ELSE << >>
       IN
         /\ resp = "200" \/ MayFail
         /\ faults' = faults + Cost(resp = "200")
         /\ listStatus' = resp
         /\ repos' = l
         /\ IF resp = "200" /\ l # << >>
            THEN idx' = 1 /\ pc' = "git" /\ result' = result
            ELSE /\ idx' = 0
                 /\ pc' = "end"
                 /\ result' = IF resp = "200" THEN ReturnOk
                              ELSE listing_failed_result(resp)
    /\ FreshLogs
    /\ UNCHANGED <<entry, org, remote, syncLog, run, secret, fs, bucket,
                   pipelines, gitOp, clonedRun, mirrorCloned>>

----------------------------------------------------------------------------
(* Order of the stages of one repository *)

\* the pipeline with the wiki sync before the metadata collection
next_stage_wiki_first(stage) ==
    CASE stage = "git" -> "wiki"
      [] stage = "wiki" -> "metadata"
      [] stage = "metadata" -> "ensure"

\* the position after a stage that returned: backup_git_repo,
\* backup_all_metadata, backup_wiki, upload_backup_to_s3, in this order
next_stage(stage) ==
    CASE stage = "git" -> "metadata"
      [] stage = "metadata" -> "wiki"
      [] stage = "wiki" -> "ensure"

----------------------------------------------------------------------------
(* Git mirror *)

\* a sync that clones whatever the staging area holds
sync_op_always_clone(mirror_exists) == "clone"

\* the choice between fetch and clone
sync_op(mirror_exists) == IF mirror_exists THEN "fetch" ELSE "clone"

\* a sync that fetches after it has cloned
mirror_sync_clone_then_fetch(mirror_exists) ==
    IF mirror_exists THEN <<"fetch">> ELSE <<"clone", "fetch">>

\* the git commands one sync hands to subprocess.run, in order: the if and
\* the else of backup_git_repo and of backup_wiki hold one command each
mirror_sync(mirror_exists) == <<sync_op(mirror_exists)>>

\* "ok": git exits 0; "nonzero": git exits with another code; "raise":
\* subprocess.run raises; "mkdir_raise": os.makedirs(repo_path) raises
GitOutcomes == {"ok", "nonzero", "raise", "mkdir_raise"}

\* the exit code of git: -1 when git did not run
git_exit(out) == IF out = "ok" THEN 0 ELSE IF out = "nonzero" THEN 128 ELSE -1

\* a fetch that leaves the mirror without refs
after_sync_fetch_empties(op, exit, local, remote_refs) ==
    IF exit # 0 THEN local
    ELSE IF op = "fetch" THEN "none" ELSE remote_refs

\* the refs of the mirror after `git clone --mirror` or `git fetch --all`:
\* those of the remote when git exits 0, those it had otherwise
after_sync(op, exit, local, remote_refs) ==
    IF exit = 0 THEN remote_refs ELSE local

\* the last two elements of a sequence extended by one
LastTwo(s, x) == IF s = << >> THEN <<x>> ELSE <<s[Len(s)], x>>

\* what backup_git_repo logs when it returns: the exit code is not read
git_outcome(exit) == "completed"

\* the line of the log for a mirror sync: the commands it issued, whether
\* the mirror existed when it chose them, and how the environment answered
SyncEntry(stage, outcome, existed, out) ==
    [ stage |-> stage, outcome |-> outcome,
      ops |-> IF out = "mkdir_raise" THEN << >> ELSE mirror_sync(existed),
      op |-> IF out \in {"raise", "mkdir_raise"} THEN "none" ELSE sync_op(existed),
      existed |-> existed,
      cause |-> out,
      exit |-> git_exit(out) ]

\* backup_git_repo
backup_git_repo ==
    /\ pc = "git"
    /\ \E out \in GitOutcomes :
         LET r == repo_name
             existed == r \in fs.gitMirror
             op == sync_op(existed)
             cloned == op = "clone" /\ out = "ok"
             after == after_sync(op, git_exit(out), fs.gitRefs[r], remote[r])
         IN  /\ out = "ok" \/ MayFail
             /\ faults' = faults + Cost(out = "ok")
             /\ IF out = "mkdir_raise"
                THEN UNCHANGED <<fs, gitOp, clonedRun, mirrorCloned, syncLog>>
                ELSE /\ fs' = [fs EXCEPT
                                 !.gitDir = @ \cup {r},
                                 !.gitMirror = IF cloned THEN @ \cup {r} ELSE @,
                                 !.gitRefs = [fs.gitRefs EXCEPT ![r] = after]]
                     /\ IF out = "raise"
                        THEN UNCHANGED <<gitOp, clonedRun, mirrorCloned, syncLog>>
                        ELSE /\ syncLog' =
                                  [syncLog EXCEPT ![r] =
                                     LastTwo(@, [run |-> run, op |-> op,
                                                 exit |-> git_exit(out),
                                                 remote |-> remote[r],
                                                 after |-> after,
                                                 outcome |-> git_outcome(git_exit(out))])]
                             /\ gitOp' = [repo |-> r, op |-> op, run |-> run,
                                          existed |-> existed,
                                          cloned |-> r \in mirrorCloned,
                                          exit |-> git_exit(out)]
                             /\ clonedRun' =
                                  IF cloned /\ clonedRun[r] = 0
                                  THEN [clonedRun EXCEPT ![r] = run]
                                  ELSE clonedRun
                             /\ mirrorCloned' =
                                  IF cloned THEN mirrorCloned \cup {r}
                                  ELSE mirrorCloned
             /\ IF out \in {"raise", "mkdir_raise"}
                THEN /\ stageLog' = Append(stageLog,
                                       SyncEntry("git", "raised", existed, out))
                     /\ pc' = "raised"
                ELSE /\ stageLog' =
                          Append(stageLog,
                                 SyncEntry("git",
                                           git_outcome(git_exit(out)),
                                           existed, out))
                     /\ pc' = next_stage("git")
    /\ UNCHANGED <<entry, org, remote, run, secret, listStatus, repos, idx,
                   bucket, mdLog, uploads, preUpload, pipelines, result>>

----------------------------------------------------------------------------
(* Metadata *)

\* What one request can meet.  "200_badjson": status 200 whose body
\* response.json() cannot parse (requests raises its JSONDecodeError, a
\* RequestException).  "200_writefail": status 200, and open() or json.dump
\* raises OSError.  "exception": requests.get raises a RequestException.
Responses ==
    {"200", "404", "403", "500", "exception", "200_badjson", "200_writefail"}

\* The entries of metadata_items whose request, and the upload of whose
\* file, may fail (the first two and the last); the requests of the other
\* entries answer 200 and the uploads of their files succeed.
FailingItems == {1, 2, NItems}

FailingLabels == { metadata_items[k][2] : k \in FailingItems }

\* the outcome backup_metadata logs for a response; "raised" when an
\* exception leaves backup_metadata
metadata_outcome(resp) ==
    IF entry = "lambda"
    THEN CASE resp = "200" -> "success"
           [] resp = "404" -> "skipped"
           [] resp = "403" -> "forbidden"
           [] resp = "500" -> "failed"
           [] resp \in {"exception", "200_badjson"} -> "failed"
           [] resp = "200_writefail" -> "raised"
    ELSE CASE resp = "200" -> "success"
           [] resp \in {"404", "403", "500"} -> "failed"
           [] resp \in {"exception", "200_badjson", "200_writefail"} -> "raised"

\* backup_metadata for the next entry of metadata_items, and the loop of
\* backup_all_metadata around it
backup_metadata ==
    /\ pc = "metadata"
    /\ \E resp \in Responses, partial \in BOOLEAN :
         LET k == Len(mdLog) + 1
             r == repo_name
             label == metadata_items[k][2]
             f == backup_file_path(r, label)
             outcome == metadata_outcome(resp)
             \* the file is opened for writing: on 200, or cut short by OSError
             wrote == resp = "200" \/ (resp = "200_writefail" /\ partial)
         IN  /\ resp = "200" \/ (MayFail /\ k \in FailingItems)
             /\ partial => resp = "200_writefail"
             /\ faults' = faults + Cost(resp = "200")
             /\ fs' = IF wrote
                      THEN [fs EXCEPT !.meta =
                              [g \in DOMAIN @ \cup {f} |->
                                 IF g = f
                                 THEN [run |-> run, complete |-> resp = "200",
                                       repo |-> r, label |-> label]
                                 ELSE @[g]]]
                      ELSE fs
             /\ mdLog' = Append(mdLog, [label |-> label, resp |-> resp,
                                        outcome |-> outcome, wrote |-> wrote])
             /\ IF outcome = "raised"
                THEN /\ stageLog' = Append(stageLog, Entry("metadata", "raised"))
                     /\ pc' = "raised"
                ELSE IF k = NItems
                THEN /\ stageLog' = Append(stageLog, Entry("metadata", "completed"))
                     /\ pc' = next_stage("metadata")
                ELSE UNCHANGED <<stageLog, pc>>
    /\ UNCHANGED <<entry, org, remote, syncLog, run, secret, listStatus,
                   repos, idx, bucket, uploads, preUpload, pipelines, gitOp,
                   clonedRun, mirrorCloned, result>>

----------------------------------------------------------------------------
(* Wiki mirror *)

\* "absent": the clone exits non-zero because the repository has no wiki;
\* "transport": the clone or fetch exits non-zero for a transport or
\* permission reason; "raise": subprocess.run raises; "mkdir_raise":
\* os.makedirs(wiki_path) raises
WikiOutcomes == {"ok", "absent", "transport", "raise", "mkdir_raise"}

\* what backup_wiki logs; "raised" when an exception leaves backup_wiki
wiki_outcome(op, out) ==
    IF out = "mkdir_raise" THEN "raised"
    ELSE IF entry = "lambda"
    THEN CASE out = "raise" -> "error"
           [] out = "ok" -> "completed"
           [] out \in {"absent", "transport"} /\ op = "clone" -> "warning"
           [] out \in {"absent", "transport"} /\ op = "fetch" -> "warning_completed"
    ELSE IF out = "raise" THEN "raised" ELSE "completed"

\* backup_wiki
backup_wiki ==
    /\ pc = "wiki"
    /\ \E out \in WikiOutcomes :
         LET r == repo_name
             existed == r \in fs.wikiMirror
             op == sync_op(existed)
             outcome == wiki_outcome(op, out)
         IN  /\ out = "ok" \/ MayFail
             /\ out = "absent" => op = "clone"
             /\ out = "mkdir_raise" => r \notin fs.wikiDir
             /\ faults' = faults + Cost(out = "ok")
             /\ fs' = IF out = "mkdir_raise" THEN fs
                      ELSE [fs EXCEPT
                              !.wikiDir = @ \cup {r},
                              !.wikiMirror = IF op = "clone" /\ out = "ok"
                                             THEN @ \cup {r} ELSE @]
             /\ stageLog' = Append(stageLog,
                                   SyncEntry("wiki", outcome, existed, out))
             /\ pc' = IF outcome = "raised" THEN "raised" ELSE next_stage("wiki")
    /\ UNCHANGED <<entry, org, remote, syncLog, run, secret, listStatus,
                   repos, idx, bucket, mdLog, uploads, preUpload, pipelines,
                   gitOp, clonedRun, mirrorCloned, result>>

----------------------------------------------------------------------------
(* Upload *)

\* head_bucket: "exists", or a ClientError with code "404" or "403", or
\* "error", an exception that is no ClientError (the endpoint is unreachable)
HeadOutcomes == {"exists", "404", "403", "error"}

\* create_bucket: "ok", or it raises: "already" (the bucket exists), "denied"
CreateOutcomes == {"ok", "already", "denied"}

\* whether ensure_s3_bucket_exists calls create_bucket after this head_bucket
calls_create(head) ==
    IF entry = "lambda" THEN head = "404" ELSE head \in {"404", "403"}

\* whether ensure_s3_bucket_exists returns normally
ensure_returns(head, create) ==
    \/ head = "exists"
    \/ calls_create(head) /\ create = "ok"

\* the line of the log for ensure_s3_bucket_exists: what head_bucket
\* answered, whether create_bucket was called, and what it answered
EnsureEntry(outcome, head, create) ==
    [ stage |-> "ensure", outcome |-> outcome, head |-> head,
      called |-> calls_create(head),
      create |-> IF calls_create(head) THEN create ELSE "none" ]

\* upload_backup_to_s3 up to the return of ensure_s3_bucket_exists
ensure_s3_bucket_exists ==
    /\ pc = "ensure"
    /\ \E head \in HeadOutcomes, create \in CreateOutcomes :
         LET headNominal == head = (IF bucket THEN "exists" ELSE "404")
             createNominal == ~calls_create(head) \/ create = "ok"
             cost == Cost(headNominal) + Cost(createNominal)
         IN  /\ head = "exists" => bucket
             /\ head = "404" => ~bucket
             /\ ~calls_create(head) => create = "ok"
             /\ faults + cost <= MaxFaults
             /\ faults' = faults + cost
             /\ bucket' = (bucket \/ (calls_create(head) /\ create = "ok"))
             /\ preUpload' = StagingOf(repo_name)
             /\ IF ensure_returns(head, create)
                THEN /\ stageLog' = Append(stageLog, EnsureEntry("ok", head, create))
                     /\ pc' = "upload_git"
                ELSE /\ stageLog' = Append(stageLog,
                                           EnsureEntry("raised", head, create))
                     /\ pc' = "raised"
    /\ UNCHANGED <<entry, org, remote, syncLog, run, secret, listStatus,
                   repos, idx, fs, mdLog, uploads, pipelines, gitOp,
                   clonedRun, mirrorCloned, result>>

\* an upload_to_s3 that lets the exception of upload_file through
upload_to_s3_raising(up) == IF up THEN "uploaded" ELSE "raised"

\* upload_to_s3: what it logs for an upload_file that returned (up) or
\* raised; the exception is caught and upload_to_s3 returns in both cases
upload_to_s3(up) == IF up THEN "uploaded" ELSE "upload_failed"

\* the line of the log for the archive of <kind>/R
ArchiveEntry(kind, outcome, tar) ==
    [stage |-> "archive_" \o kind, outcome |-> outcome, kind |-> kind, tar |-> tar]

\* tar: "ok"; "fail": tar exits non-zero and leaves a partial archive;
\* "raise": subprocess.run raises
TarOutcomes == {"ok", "fail", "raise"}

\* whether the archive of <kind>/R is created and uploaded at all
archive_wanted(kind, r) ==
    IF kind = "git" THEN r \in fs.gitDir ELSE r \in fs.wikiDir

\* whether upload_to_s3 is called for the archive after this tar outcome:
\* the handler runs tar with check=True, the script does not
uploads_archive(tar) ==
    IF entry = "lambda" THEN tar = "ok" ELSE tar \in {"ok", "fail"}

\* whether the local archive is removed after the upload
removes_archive(tar) == entry = "lambda" /\ tar = "ok"

archive_key(kind, r) == IF kind = "git" THEN git_key(r) ELSE wiki_key(r)

\* the archive part of upload_backup_to_s3, for the git or the wiki mirror
upload_archive(kind) ==
    /\ pc = (IF kind = "git" THEN "upload_git" ELSE "upload_wiki")
    /\ \E tar \in TarOutcomes, up \in BOOLEAN :
         LET r == repo_name
             wanted == archive_wanted(kind, r)
             called == wanted /\ uploads_archive(tar)
             cost == Cost(tar = "ok") + Cost(up)
             res == IF called THEN upload_to_s3(up) ELSE "none"
             mirror == IF kind = "git" THEN r \in fs.gitMirror
                       ELSE r \in fs.wikiMirror
             others == { t \in fs.tars : ~(t[1] = kind /\ t[2] = r) }
         IN  /\ ~wanted => tar = "ok"
             /\ ~called => up
             /\ faults + cost <= MaxFaults
             /\ faults' = faults + cost
             /\ fs' = IF ~wanted \/ tar = "raise" THEN fs
                      ELSE IF removes_archive(tar)
                      THEN [fs EXCEPT !.tars = others]
                      ELSE [fs EXCEPT !.tars = others \cup {<<kind, r, tar = "ok">>}]
             /\ uploads' =
                  IF called
                  THEN uploads \cup
                         {[kind |-> kind, key |-> archive_key(kind, r),
                           src |-> <<kind, r, ".tar.gz">>, ok |-> up,
                           complete |-> tar = "ok", mirror |-> mirror,
                           written |-> run]}
                  ELSE uploads
             /\ IF tar = "raise" \/ res = "raised"
                THEN /\ stageLog' = Append(stageLog, ArchiveEntry(kind, "raised", tar))
                     /\ pc' = "raised"
                ELSE /\ stageLog' =
                          Append(stageLog,
                                 ArchiveEntry(kind,
                                              IF ~wanted THEN "none"
                                              ELSE IF ~called THEN "tar_failed"
                                              ELSE res,
                                              tar))
                     /\ pc' = IF kind = "git" THEN "upload_meta"
                              ELSE IF entry = "lambda" THEN "cleanup"
                              ELSE "next"
    /\ UNCHANGED <<entry, org, remote, syncLog, run, secret, listStatus,
                   repos, idx, bucket, mdLog, preUpload, pipelines, gitOp,
                   clonedRun, mirrorCloned, result>>

\* the entries of BACKUP_DIR that are directories: upload_file cannot send them
IsDirectory(f) == f \in { <<"git">>, <<"wiki">> }

\* the metadata loop of upload_backup_to_s3
upload_metadata ==
    /\ pc = "upload_meta"
    /\ LET r == repo_name
           files == { f \in listdir : is_metadata_of(r, f) }
           dirs == { f \in files : IsDirectory(f) }
           fallible == { f \in files \ dirs : fs.meta[f].label \in FailingLabels }
       IN  \E failed \in SubsetsUpTo(fallible, MaxFaults - faults) :
             LET res == upload_to_s3(failed \cup dirs = {})
                 \* the loop ends at the call of upload_to_s3 that raises
                 called == IF res = "raised" THEN failed \cup dirs ELSE files
             IN
             /\ faults' = faults + Cardinality(failed)
             /\ uploads' =
                  uploads \cup
                    { [kind |-> "meta", key |-> metadata_key(r, f), src |-> f,
                       ok |-> f \notin failed /\ f \notin dirs,
                       complete |-> IF f \in dirs THEN FALSE ELSE fs.meta[f].complete,
                       mirror |-> FALSE,
                       written |-> IF f \in dirs THEN 0 ELSE fs.meta[f].run]
                      : f \in called }
             /\ stageLog' = Append(stageLog, Entry("upload_meta", res))
             /\ pc' = IF res = "raised" THEN "raised" ELSE "upload_wiki"
    /\ UNCHANGED <<entry, org, remote, syncLog, run, secret, listStatus,
                   repos, idx, fs, bucket, mdLog, preUpload, pipelines,
                   gitOp, clonedRun, mirrorCloned, result>>

----------------------------------------------------------------------------
(* Cleanup and the loop over the repositories *)

\* "raise_git", "raise_wiki": shutil.rmtree raises; "raise_meta": os.remove raises
CleanupOutcomes == {"ok", "raise_git", "raise_wiki", "raise_meta"}

\* the staging area after the cleanup of r that ended as out
cleaned(r, out) ==
    LET gitGone == out # "raise_git"
        wikiGone == out \in {"ok", "raise_meta"}
        metaGone == out = "ok"
        kept == { f \in DOMAIN fs.meta : ~(metaGone /\ is_metadata_of(r, f)) }
    IN  [fs EXCEPT
           !.gitDir = IF gitGone THEN @ \ {r} ELSE @,
           !.gitMirror = IF gitGone THEN @ \ {r} ELSE @,
           !.gitRefs = IF gitGone THEN [fs.gitRefs EXCEPT ![r] = "none"] ELSE @,
           !.wikiDir = IF wikiGone THEN @ \ {r} ELSE @,
           !.wikiMirror = IF wikiGone THEN @ \ {r} ELSE @,
           !.meta = [f \in kept |-> fs.meta[f]]]

\* the cleanup of backup_all_repos (the handler only)
cleanup ==
    /\ pc = "cleanup"
    /\ entry = "lambda"
    /\ \E out \in CleanupOutcomes :
         LET r == repo_name
         IN  /\ out = "ok" \/ MayFail
             /\ faults' = faults + Cost(out = "ok")
             /\ fs' = cleaned(r, out)
             /\ mirrorCloned' = IF out # "raise_git" THEN mirrorCloned \ {r}
                                ELSE mirrorCloned
             /\ IF out = "ok"
                THEN /\ stageLog' = Append(stageLog, Entry("cleanup", "completed"))
                     /\ pc' = "next"
                ELSE /\ stageLog' = Append(stageLog, Entry("cleanup", "raised"))
                     /\ pc' = "raised"
    /\ UNCHANGED <<entry, org, remote, syncLog, run, secret, listStatus,
                   repos, idx, bucket, mdLog, uploads, preUpload, pipelines,
                   gitOp, clonedRun, result>>

\* the outcomes in the log that tell a failure
FailureOutcomes ==
    {"raised", "warning", "warning_completed", "error", "tar_failed",
     "upload_failed"}

\* what is kept of a pipeline when it has ended
PipelineRecord(log) ==
    [ repo |-> repo_name,
      stages |-> [i \in 1..Len(log) |-> log[i].stage],
      requests |-> Len(mdLog),
      raised |-> \E i \in 1..Len(log) : log[i].outcome = "raised",
      failed |-> \/ \E i \in 1..Len(log) : log[i].outcome \in FailureOutcomes
                 \/ \E k \in 1..Len(mdLog) : mdLog[k].outcome # "success"
                 \/ \E u \in uploads : ~u.ok
                 \/ (gitOp.repo = repo_name /\ gitOp.run = run /\ gitOp.exit # 0) ]

\* an exception has left a stage of the pipeline: the handler logs it and
\* continues with the next repository; the script has no handler and ends
except_handler ==
    /\ pc = "raised"
    /\ IF entry = "lambda"
       THEN /\ stageLog' = Append(stageLog, Entry("except", "logged"))
            /\ pc' = "next"
            /\ UNCHANGED <<pipelines, result>>
       ELSE /\ stageLog' = Append(stageLog, Entry("traceback", "uncaught"))
            /\ pipelines' = Append(pipelines, PipelineRecord(stageLog))
            /\ pc' = "end"
            /\ result' = "exit1"
    /\ UNCHANGED <<entry, org, remote, syncLog, run, faults, secret,
                   listStatus, repos, idx, fs, bucket, mdLog, uploads,
                   preUpload, gitOp, clonedRun, mirrorCloned>>

\* the end of one iteration of `for repo in repos`
next_repo ==
    /\ pc = "next"
    /\ pipelines' = Append(pipelines, PipelineRecord(stageLog))
    /\ IF idx < Len(repos)
       THEN /\ idx' = idx + 1
            /\ pc' = "git"
            /\ result' = result
       ELSE /\ idx' = idx
            /\ pc' = "end"
            /\ result' = ReturnOk
    /\ IF idx < Len(repos) THEN FreshLogs
       ELSE UNCHANGED <<stageLog, mdLog, uploads, preUpload>>
    /\ UNCHANGED <<entry, org, remote, syncLog, run, faults, secret,
                   listStatus, repos, fs, bucket, gitOp, clonedRun,
                   mirrorCloned>>

\* the next invocation of the same entry point over the same BACKUP_DIR
next_run ==
    /\ pc = "end"
    /\ run < MaxRuns
    /\ run' = run + 1
    /\ pc' = "secret"
    /\ secret' = "unread"
    /\ listStatus' = "none"
    /\ repos' = << >>
    /\ idx' = 0
    /\ pipelines' = << >>
    /\ result' = "none"
    /\ FreshLogs
    /\ UNCHANGED <<entry, org, remote, syncLog, faults, fs, bucket, gitOp,
                   clonedRun, mirrorCloned>>

\* between two invocations, a push changes the refs of a listed repository;
\* it is counted with the failures in what the environment does to a behaviour
push ==
    /\ pc = "end"
    /\ run < MaxRuns
    /\ MayFail
    /\ faults' = faults + 1
    /\ \E i \in 1..Len(org) :
         /\ remote[org[i]] = "v1"
         /\ remote' = [remote EXCEPT ![org[i]] = "v2"]
    /\ UNCHANGED <<entry, org, run, pc, secret, listStatus, repos, idx, fs,
                   bucket, stageLog, mdLog, uploads, preUpload, pipelines,
                   gitOp, clonedRun, mirrorCloned, syncLog, result>>

Next ==
    \/ get_secret
    \/ create_backup_folder
    \/ list_repos
    \/ backup_git_repo
    \/ backup_metadata
    \/ backup_wiki
    \/ ensure_s3_bucket_exists
    \/ upload_archive("git")
    \/ upload_metadata
    \/ upload_archive("wiki")
    \/ cleanup
    \/ except_handler
    \/ next_repo
    \/ push
    \/ next_run

Spec == Init /\ [][Next]_vars

----------------------------------------------------------------------------
(* Vocabulary of the properties *)

\* the stages that the log of the current repository shows
StagesOf(log) == { log[i].stage : i \in 1..Len(log) }

\* the position of a stage in the log, 0 when it is not there
Pos(log, stage) ==
    IF stage \in StagesOf(log)
    THEN CHOOSE i \in 1..Len(log) : log[i].stage = stage
    ELSE 0

\* the run has listed the repositories and has ended
RunEndedAfterListing == pc = "end" /\ listStatus = "200"

\* the pipeline of the current repository has ended, in whatever way
PipelineEnded == idx >= 1 /\ pc \in {"next", "end"}

\* the repository went through git sync, the 12 requests, wiki sync and upload
TakenThrough(p) ==
    /\ {"git", "metadata", "wiki", "archive_git", "upload_meta", "archive_wiki"}
         \subseteq { p.stages[i] : i \in 1..Len(p.stages) }
    /\ p.requests = NItems

\* an upload of the current repository failed: upload_file raised, or the
\* check or the creation of the bucket did
UploadFailed ==
    \/ \E u \in uploads : ~u.ok
    \/ \E i \in 1..Len(stageLog) :
         stageLog[i].stage = "ensure" /\ stageLog[i].outcome = "raised"

\* every upload of the current repository was made and succeeded
AllUploadsSucceeded ==
    /\ \A u \in uploads : u.ok
    /\ \E u \in uploads : u.kind = "git"
    /\ \E u \in uploads : u.kind = "wiki"
    /\ "upload_meta" \in StagesOf(stageLog)

\* every staging entry of `before` is in `now`, unchanged
Preserved(before, now) ==
    /\ before.gitDir => now.gitDir
    /\ before.gitMirror => now.gitMirror
    /\ before.wikiDir => now.wikiDir
    /\ before.wikiMirror => now.wikiMirror
    /\ before.meta \subseteq now.meta

----------------------------------------------------------------------------
(* Properties *)

\* C1: when the run has ended after a successful listing, every listed
\* repository has had its pipeline, whatever failed or raised in the
\* pipelines before it, and a repository whose own pipeline raised nothing
\* went through git sync, the 12 metadata requests, wiki sync and upload.
C1_LaterReposProcessed ==
    RunEndedAfterListing =>
        /\ Len(pipelines) = Len(repos)
        /\ \A j \in 1..Len(pipelines) :
             /\ pipelines[j].repo = repos[j]
             /\ pipelines[j].raised \/ TakenThrough(pipelines[j])

\* C2: once the metadata collection of a repository has started and is no
\* longer running, the 12 entries of the catalog have each been requested
\* once, in the order of the catalog, and each has one recorded outcome.
C2_AllEntriesRequested ==
    (pc # "metadata" /\ Len(mdLog) > 0) =>
        /\ Len(mdLog) = NItems
        /\ \A k \in 1..Len(mdLog) : mdLog[k].label = metadata_items[k][2]

\* C3: at the end of the pipeline of a repository one of whose uploads
\* failed, every staging entry the repository had when its upload stage
\* began (git directory and mirror, wiki directory and mirror, metadata
\* files) is still there, unchanged.
C3_StagingKeptAfterFailedUpload ==
    (PipelineEnded /\ UploadFailed) =>
        Preserved(preUpload, StagingOf(repo_name))

\* C4: at the end of the pipeline of a repository all of whose uploads
\* succeeded, the staging area holds nothing of the repository: no git/R, no
\* wiki/R, no metadata file of R, no git/R.tar.gz and no wiki/R.tar.gz.
C4_NoStagingAfterUpload ==
    (PipelineEnded /\ AllUploadsSucceeded) =>
        StagingOf(repo_name) = NoStaging

\* the results of a run that report a failure
FailureResults == {"statusCode500", "unhandled", "exit1"}

\* C5: a run whose listing request failed (403, 404, another status, or a
\* network exception) ends without any repository stage having run and
\* returns a failure status.
C5_ListingFailureIsFatal ==
    (pc = "end" /\ listStatus \in ListResponses \ {"200"}) =>
        /\ pipelines = << >>
        /\ stageLog = << >>
        /\ result \in FailureResults

\* C6: every archive handed to upload_to_s3 is the complete archive of a
\* mirror that exists in the staging area: the git archive of R is uploaded
\* only if git/R/R exists, the wiki archive only if wiki/R/R exists, and
\* never an archive that tar did not finish.
C6_OnlyProducedArchivesUploaded ==
    \A u \in uploads :
        u.kind \in {"git", "wiki"} => (u.mirror /\ u.complete)

\* C7: every pipeline that has ended has attempted each of its stages: git
\* sync, metadata collection, wiki sync and the upload stage, whatever failed
\* or raised in the stages before.
C7_EveryStageAttempted ==
    PipelineEnded =>
        {"git", "metadata", "wiki", "ensure"} \subseteq StagesOf(stageLog)

\* C8 as stated: the wiki sync comes before the metadata collection: no
\* metadata request of R is logged before the wiki sync of R has ended, and
\* no upload of R starts before the metadata collection of R has ended.
C8_WikiBeforeMetadata ==
    /\ Len(mdLog) > 0 => "wiki" \in StagesOf(stageLog)
    /\ "ensure" \in StagesOf(stageLog) => "metadata" \in StagesOf(stageLog)

\* C8, amended: the stages of a repository run in the order git sync,
\* metadata collection, wiki sync, upload: no metadata request of R is made
\* before the git sync of R has ended, the wiki sync of R does not run before
\* the 12 requests of R have been made, and the upload stage of R does not
\* start before the wiki sync of R has ended.
C8_StageOrder ==
    /\ Len(mdLog) > 0 => Pos(stageLog, "git") = 1
    /\ "wiki" \in StagesOf(stageLog) =>
          /\ Len(mdLog) = NItems
          /\ 0 < Pos(stageLog, "metadata")
          /\ Pos(stageLog, "metadata") < Pos(stageLog, "wiki")
    /\ "ensure" \in StagesOf(stageLog) =>
          /\ 0 < Pos(stageLog, "wiki")
          /\ Pos(stageLog, "wiki") < Pos(stageLog, "ensure")

\* a pipeline has run its four stages to the end of the upload
C8_Witness ==
    /\ pc = "next"
    /\ Len(mdLog) = NItems
    /\ {"git", "metadata", "wiki", "ensure", "archive_wiki"}
         \subseteq StagesOf(stageLog)

\* the outcome and the file that C9 states for a response
C9_Expected(resp) ==
    CASE resp \in {"200", "200_badjson", "200_writefail"} ->
           [outcome |-> "success", wrote |-> TRUE]
      [] resp = "404" -> [outcome |-> "skipped", wrote |-> FALSE]
      [] resp = "403" -> [outcome |-> "forbidden", wrote |-> FALSE]
      [] resp \in {"500", "exception"} -> [outcome |-> "failed", wrote |-> FALSE]

\* C9: the recorded outcome of each request, and whether it wrote the file,
\* are those its response determines: 200 writes the file and is a success,
\* 404 is skipped, 403 is forbidden, any other status or a transport
\* exception is failed, and only a 200 writes a file.
C9_OutcomeByResponse ==
    \A k \in 1..Len(mdLog) :
        /\ mdLog[k].outcome = C9_Expected(mdLog[k].resp).outcome
        /\ mdLog[k].wrote = C9_Expected(mdLog[k].resp).wrote

\* C10 as stated: a clone of R is never issued in a run later than the run of
\* the first successful clone of R.
C10_NeverReclone ==
    gitOp.op = "clone" => clonedRun[gitOp.repo] \in {0, gitOp.run}

\* C10, amended: a git sync of a repository that was cloned successfully, and
\* whose mirror no cleanup has removed since, is a fetch: a clone is issued
\* again only after the cleanup of the repository has removed the mirror.
C10_FetchWhileMirrorKept ==
    /\ gitOp.op = "clone" => ~gitOp.cloned
    /\ gitOp.cloned => gitOp.op = "fetch"

\* a later run has fetched into the mirror that an earlier run cloned
C10_Witness ==
    /\ gitOp.op = "fetch"
    /\ gitOp.cloned
    /\ clonedRun[gitOp.repo] # 0
    /\ clonedRun[gitOp.repo] < gitOp.run

\* the lines of the log of the current repository that are mirror syncs
SyncLines == { i \in 1..Len(stageLog) : stageLog[i].stage \in {"git", "wiki"} }

C12_NonZeroExitReportedFailed ==
    \A i \in SyncLines :
        (stageLog[i].stage = "git" /\ stageLog[i].exit > 0) =>
            stageLog[i].outcome = "failed"

\* the lines of the log of the current repository that are archives
ArchiveLines ==
    { i \in 1..Len(stageLog) : stageLog[i].stage \in {"archive_git", "archive_wiki"} }

\* the parts of the upload stage: git archive, metadata files, wiki archive
UploadParts == {"archive_git", "upload_meta", "archive_wiki"}

\* C13: when tar fails for one archive of R, the failure is recorded as a
\* failure of the archive, upload_to_s3 is not called for that archive, and
\* the pipeline of R still goes through the metadata upload and the other
\* archive.
C13_FailedArchiveSkipsOnlyItsUpload ==
    \A i \in ArchiveLines :
        stageLog[i].tar # "ok" =>
            /\ stageLog[i].outcome = "tar_failed"
            /\ \A u \in uploads : u.kind # stageLog[i].kind
            /\ PipelineEnded => UploadParts \subseteq StagesOf(stageLog)

\* the part of the upload stage that uploads the artifacts of a kind
UploadPartOf(kind) == IF kind = "meta" THEN "upload_meta" ELSE "archive_" \o kind

\* C14: a failed upload raises nothing: after upload_file has failed for one
\* artifact of R, the pipeline of R goes on with the parts of the upload
\* stage that remain (the metadata files, then the wiki archive), and the
\* metadata loop has called upload_to_s3 for every metadata file of R that
\* was in the staging area when the upload stage began.
C14_FailedUploadDoesNotStopUploads ==
    /\ \A u \in uploads :
         ~u.ok =>
            /\ u.kind = "git" =>
                 ("upload_meta" \in StagesOf(stageLog) \/ pc = "upload_meta")
            /\ u.kind \in {"git", "meta"} =>
                 ("archive_wiki" \in StagesOf(stageLog)
                    \/ pc \in {"upload_meta", "upload_wiki"})
            /\ \A i \in 1..Len(stageLog) :
                 stageLog[i].stage = UploadPartOf(u.kind) =>
                    stageLog[i].outcome # "raised"
    /\ ("upload_meta" \in StagesOf(stageLog) /\ \E u \in uploads : ~u.ok) =>
         \A m \in preUpload.meta : \E u \in uploads : u.kind = "meta" /\ u.src = m[1]

\* the upload of the git archive of R failed, and the metadata files and the
\* wiki archive of R were handed to upload_to_s3 after it
C14_Witness ==
    /\ \E u \in uploads : u.kind = "git" /\ ~u.ok
    /\ \E u \in uploads : u.kind = "meta" /\ u.ok
    /\ \E u \in uploads : u.kind = "wiki" /\ u.ok
    /\ Cardinality({ u \in uploads : u.kind = "meta" }) >= NItems

\* the lines of the log of the current repository for the bucket
EnsureLines == { i \in 1..Len(stageLog) : stageLog[i].stage = "ensure" }

\* C15: ensure_s3_bucket_exists calls create_bucket if and only if
\* head_bucket reported the bucket absent (404); it returns normally when
\* the bucket exists and when create_bucket answered "created" or "already
\* exists"; every other error of head_bucket or of create_bucket is raised,
\* and an error of head_bucket other than 404 leads to no create_bucket.
C15_EnsureBucketCreateIfAbsent ==
    \A i \in EnsureLines :
        LET e == stageLog[i]
        IN  /\ e.called <=> e.head = "404"
            /\ e.head = "exists" => e.outcome = "ok"
            /\ (e.called /\ e.create \in {"ok", "already"}) => e.outcome = "ok"
            /\ (e.called /\ e.create = "denied") => e.outcome = "raised"
            /\ e.head \in {"403", "error"} => e.outcome = "raised"

\* the repositories whose last two git syncs met the same remote refs and
\* whose git commands both exited 0
SyncedTwiceUnchanged ==
    { r \in RepoNames :
        /\ Len(syncLog[r]) = 2
        /\ syncLog[r][1].remote = syncLog[r][2].remote
        /\ syncLog[r][1].exit = 0
        /\ syncLog[r][2].exit = 0 }

C17_WikiAbsenceDistinct ==
    \A i \in SyncLines :
        (stageLog[i].stage = "wiki" /\ stageLog[i].cause \in {"absent", "transport"}) =>
            /\ stageLog[i].outcome # "raised"
            /\ stageLog[i].cause = "absent" =>
                 stageLog[i].outcome # wiki_outcome(stageLog[i].op, "transport")

\* C18: in a run whose secret is not a complete credential set (it could
\* not be read, or one of its four values is missing), the listing is not
\* requested and no repository is processed.
C18_IncompleteCredentialsAbort ==
    secret \in {"partial", "none"} =>
        /\ listStatus = "none"
        /\ idx = 0
        /\ stageLog = << >>

\* the names of the metadata files of a repository: R_<artifactLabel>.json
OwnFiles(r) == { backup_file_path(r, l) : l \in Labels }

\* the calls of upload_to_s3 of the metadata loop for the current repository
MetaUploads == { u \in uploads : u.kind = "meta" }

\* C19: every file the metadata loop of R hands to upload_to_s3, to be
\* stored under R/metadata/, is a file R_<artifactLabel>.json of R itself,
\* never a file of another repository whose name contains the name of R.
C19_OnlyOwnMetadataFiles ==
    \A u \in MetaUploads : u.src \in OwnFiles(repo_name)

\* C20: every metadata file of R that is uploaded in the pipeline of R was
\* written in this run, by a request of this pipeline that answered 200.
C20_OnlyFreshMetadataUploaded ==
    \A u \in MetaUploads :
        u.src \in OwnFiles(repo_name) =>
            /\ u.written = run
            /\ \E k \in 1..Len(mdLog) :
                 /\ backup_file_path(repo_name, mdLog[k].label) = u.src
                 /\ mdLog[k].resp = "200"

\* the stages of a log, in order
StageSeq(log) == [i \in 1..Len(log) |-> log[i].stage]

\* what holds of the pipelines of a run at every moment: those that have
\* ended are those of the first repositories of the listing, in listing
\* order and once each, the current one is the next, and no stage of a
\* pipeline ran twice and no catalog entry was requested twice
OnceInListingOrder ==
    /\ Len(pipelines) <= Len(repos)
    /\ \A j \in 1..Len(pipelines) :
         /\ pipelines[j].repo = repos[j]
         /\ Distinct(pipelines[j].stages)
         /\ pipelines[j].requests <= NItems
    /\ Distinct(StageSeq(stageLog))
    /\ Distinct([k \in 1..Len(mdLog) |-> mdLog[k].label])
    /\ (idx >= 1 /\ pc # "end") => Len(pipelines) = idx - 1

\* C21: the pipelines of a run are started in listing order, one after the
\* other has ended, each repository once and no stage or request twice, and
\* a run that has ended after a successful listing has started the pipeline
\* of every listed repository: none was skipped.
C21_EveryRepoOnceInListingOrder ==
    /\ OnceInListingOrder
    /\ RunEndedAfterListing => Len(pipelines) = Len(repos)

====
